---- MODULE Spec2Model ----
(***************************************************************************)
(* Skyline Motors voice concierge (sash7410/VoiceAgentRag).                *)
(*                                                                         *)
(* Texts are sequences of one-character strings, so that lower-casing,     *)
(* substring search, stripping, flattening and truncation are computed     *)
(* character by character as the Python code computes them.                *)
(***************************************************************************)
EXTENDS Integers, Sequences, FiniteSets, TLC

VARIABLES
    text,        \* agent.py _looks_like_factual_question: the argument
    factual,     \* its return value: <<>> before the call, <<result>> after
    k,           \* handbook_rag.py build_handbook_reference: the argument k
    queried_k,   \* the k handed to similarity_search (<<>> while not queried)
    retrieval,   \* "pending", "ok" or "raised": how retrieve_handbook_context ended
    chunks,      \* the passages it returned
    handbook_ref, \* build_handbook_reference's return value (<<>> before, <<text>> after)
    body_type,   \* tools.py search_inventory: its arguments
    min_price,
    max_price,
    limit,
    results,     \* its return value (<<>> before the call, <<list>> after)
    TEST_DRIVE_BOOKINGS, \* tools.py: the in-memory booking store
    booking_args, \* the arguments of the last book_test_drive_tool call
    booking,     \* what that call returned
    phase,       \* where the turn is: "listening", "end_of_turn", "reasoning"
    new_message, \* agent.py on_user_turn_completed: text_content of new_message
    turn_ctx,    \* and its turn_ctx: a sequence of [role, content] messages
    hook,        \* how on_user_turn_completed ended for the turn
    retrieval_calls, \* calls of build_handbook_reference made for the turn
    tasks,       \* the live _publish_transcript tasks: [id, speaker, text, pc]
    ready,       \* the event loop's FIFO of task steps that can run
    next_task,   \* number of tasks created so far
    published,   \* the payloads publish_data accepted, in the order of the calls
    task_end,    \* how the last _publish_transcript task to end ended
    running,     \* what the event loop's thread is inside of: "none" or the hook
    waited,      \* ticks of time since the hook called build_handbook_reference
    handbook_pdf, \* upload_server.py HANDOOK_PATH: the version of the PDF on disk
    rag_cache,   \* handbook_rag.py: per process, what lru_cache holds for _get_rag
    from_config_runs, \* runs of HandbookRAG.from_config in the agent's process
    rag_queries, \* retrieve_handbook_context calls made in the agent's process
    last_query,  \* the HandbookRAG the last of them queried, and the PDF then on disk
    agent_pc,    \* agent.py entrypoint: "warmup", "serving" or "failed"
    sup_pc,      \* run_backend.py main: where it is
    child,       \* per command: "not_started", "running" or "exited"
    sent,        \* per command: the signals main has sent it
    procs,       \* main's list procs
    fin_i        \* the index of the loops in main's finally clause

decideVars == <<text, factual>>
blockVars == <<k, queried_k, retrieval, chunks, handbook_ref>>
inventoryVars == <<body_type, min_price, max_price, limit, results>>
bookingVars == <<TEST_DRIVE_BOOKINGS, booking_args, booking>>
turnVars == <<phase, new_message, turn_ctx, hook, retrieval_calls>>
publishVars == <<tasks, ready, next_task, published, task_end>>
loopVars == <<running, waited>>
agentVars == <<turnVars, publishVars, loopVars>>
ragVars == <<handbook_pdf, rag_cache, from_config_runs, rag_queries, last_query, agent_pc>>
superVars == <<sup_pc, child, sent, procs, fin_i>>
vars == <<decideVars, blockVars, inventoryVars, bookingVars, agentVars, ragVars, superVars>>

notDecide == <<blockVars, inventoryVars, bookingVars, agentVars, ragVars, superVars>>
notBlock == <<decideVars, inventoryVars, bookingVars, agentVars, ragVars, superVars>>
notInventory == <<decideVars, blockVars, bookingVars, agentVars, ragVars, superVars>>
notBooking == <<decideVars, blockVars, inventoryVars, agentVars, ragVars, superVars>>
notTurn == <<decideVars, blockVars, inventoryVars, bookingVars, publishVars, loopVars, ragVars, superVars>>
notPublish == <<decideVars, blockVars, inventoryVars, bookingVars, turnVars, loopVars, ragVars, superVars>>
notRag == <<decideVars, blockVars, inventoryVars, bookingVars, agentVars, superVars>>
notSuper == <<decideVars, blockVars, inventoryVars, bookingVars, agentVars, ragVars>>
notLoop == <<decideVars, blockVars, inventoryVars, bookingVars, turnVars, publishVars, ragVars, superVars>>

\* Optional[T]: None is the empty sequence, a value x the one-element <<x>>
None == <<>>
Some(x) == <<x>>

(***************************************************************************)
(* Text helpers                                                            *)
(***************************************************************************)
\* a string literal as a sequence of one-character strings
Chars(s) == [i \in 1..Len(s) |-> SubSeq(s, i, i)]

RECURSIVE Concat(_)
\* the concatenation of a sequence of texts
Concat(ts) == IF ts = <<>> THEN <<>> ELSE Head(ts) \o Concat(Tail(ts))

Upper == Chars("ABCDEFGHIJKLMNOPQRSTUVWXYZ")
LowerAlpha == Chars("abcdefghijklmnopqrstuvwxyz")

\* str.lower() on one ASCII character
lower_char(c) ==
    IF \E i \in 1..Len(Upper) : Upper[i] = c
    THEN LowerAlpha[CHOOSE i \in 1..Len(Upper) : Upper[i] = c]
    ELSE c

\* str.lower()
str_lower(s) == [i \in 1..Len(s) |-> lower_char(s[i])]

\* Python's `sub in s` for strings
str_contains(s, sub) ==
    \E start \in 0..(Len(s) - Len(sub)) :
        \A j \in 1..Len(sub) : s[start + j] = sub[j]

(***************************************************************************)
(* agent.py: the augmentation decision                                     *)
(***************************************************************************)
keywords == <<
    Chars("warranty"), Chars("maintenance"), Chars("service interval"),
    Chars("oil change"), Chars("finance"), Chars("financing"),
    Chars("lease"), Chars("leasing"), Chars("apr"),
    Chars("interest rate"), Chars("down payment"), Chars("trim"),
    Chars("horsepower"), Chars("torque"), Chars("cargo"), Chars("mpg"),
    Chars("range"), Chars("visit"), Chars("sales visit"),
    Chars("test drive") >>

\* the decision with the lower-casing step left out
looks_like_factual_question_nolower(t) ==
    \E n \in 1..Len(keywords) : str_contains(t, keywords[n])

_looks_like_factual_question(t) ==
    LET lowered == str_lower(t)
    IN  \E n \in 1..Len(keywords) : str_contains(lowered, keywords[n])

(***************************************************************************)
(* Inputs of the decision: utterances assembled from fragments, so that a  *)
(* keyword can appear whole, in upper case, across a fragment boundary, or *)
(* not at all.                                                             *)
(***************************************************************************)
MaxFrags == 2

Fragments == {
    Chars("Hi there"), Chars("Warr"), Chars("anty"), Chars("What's the APR"),
    Chars(" test"), Chars(" drive"), Chars("RANGE"), Chars("tri"), Chars("m"),
    Chars("oil"), Chars(" change?") }

FragSeqs == UNION { [1..n -> Fragments] : n \in 0..MaxFrags }

Utterances == { Concat(fs) : fs \in FragSeqs }

DecideIdle ==
    /\ text = <<>>
    /\ factual = <<>>

BlockIdle ==
    /\ k = None
    /\ queried_k = <<>>
    /\ retrieval = "pending"
    /\ chunks = <<>>
    /\ handbook_ref = <<>>

\* tools.py search_inventory: limit: int = 5
DefaultLimit == 5

InventoryIdle ==
    /\ body_type = None
    /\ min_price = None
    /\ max_price = None
    /\ limit = DefaultLimit
    /\ results = <<>>

BookingIdle ==
    /\ TEST_DRIVE_BOOKINGS = <<>>
    /\ booking_args = None
    /\ booking = None

AgentIdle ==
    /\ phase = "listening"
    /\ new_message = None
    /\ turn_ctx = <<>>
    /\ hook = "none"
    /\ retrieval_calls = 0
    /\ tasks = {}
    /\ ready = <<>>
    /\ next_task = 0
    /\ published = <<>>
    /\ task_end = "none"
    /\ running = "none"
    /\ waited = 0

\* the two processes run_backend.py starts
Procs == {"agent", "upload_server"}

RagIdle ==
    /\ handbook_pdf = 0
    /\ rag_cache = [p \in Procs |-> None]
    /\ from_config_runs = 0
    /\ rag_queries = 0
    /\ last_query = None
    /\ agent_pc = "warmup"

\* main's list commands, by index
Commands == 1..2

SupervisorIdle ==
    /\ sup_pc = "popen"
    /\ child = [c \in Commands |-> "not_started"]
    /\ sent = [c \in Commands |-> {}]
    /\ procs = <<>>
    /\ fin_i = 1

InitDecide ==
    /\ text \in Utterances
    /\ factual = <<>>
    /\ BlockIdle
    /\ InventoryIdle
    /\ BookingIdle
    /\ AgentIdle
    /\ RagIdle
    /\ SupervisorIdle

Decide ==
    /\ factual = <<>>
    /\ factual' = << _looks_like_factual_question(text) >>
    /\ UNCHANGED <<text, notDecide>>

NextDecide == Decide

SpecDecide == InitDecide /\ [][NextDecide]_vars

\* term occurs in s: s = prefix \o term \o suffix
OccursIn(term, s) ==
    \E i \in 0..Len(s) : \E j \in i..Len(s) : SubSeq(s, i + 1, j) = term

Vocabulary == { keywords[n] : n \in 1..Len(keywords) }

(***************************************************************************)
(* C1: the decision is true exactly when some vocabulary term occurs as a  *)
(* substring of the lower-cased text; it is false for the empty text, and  *)
(* the result is a function of the text alone.                             *)
(***************************************************************************)

C1_DecisionIsKeywordMatch ==
    factual # <<>> =>
        /\ factual[1] = (\E term \in Vocabulary : OccursIn(term, str_lower(text)))
        /\ (text = <<>> => factual[1] = FALSE)

C1_Witness ==
    /\ factual = <<TRUE>>
    /\ text = Chars("Warranty")

(***************************************************************************)
(* handbook_rag.py: retrieval and the reference block                      *)
(***************************************************************************)
top_k_chunks == 3

MaxChunkChars == 600

Whitespace == {" ", "\n", "\t", "\r"}

RECURSIVE lstrip_from(_, _)
\* index of the first character str.strip() keeps (Len(s) + 1 if none)
lstrip_from(s, i) ==
    IF i > Len(s) \/ s[i] \notin Whitespace THEN i ELSE lstrip_from(s, i + 1)

RECURSIVE rstrip_to(_, _)
\* index of the last character str.strip() keeps (0 if none)
rstrip_to(s, i) ==
    IF i < 1 \/ s[i] \notin Whitespace THEN i ELSE rstrip_to(s, i - 1)

\* str.strip()
str_strip(s) == SubSeq(s, lstrip_from(s, 1), rstrip_to(s, Len(s)))

\* str.replace(old, new) for one-character old and new
str_replace(s, old, new) == [i \in 1..Len(s) |-> IF s[i] = old THEN new ELSE s[i]]

Digit == Chars("0123456789")

RECURSIVE str_int(_)
\* the decimal numeral an f-string writes for a non-negative int
str_int(n) ==
    IF n < 10 THEN <<Digit[n + 1]>> ELSE str_int(n \div 10) \o <<Digit[(n % 10) + 1]>>

Header == Chars("Handbook reference (Skyline Motors dealer handbook):")
NoSections == Chars("Handbook reference: no relevant sections found.")
Ellipsis == Chars("...")

\* one chunk of the loop body: strip, flatten, trim
short_chunk(chunk) ==
    LET short == str_replace(str_strip(chunk), "\n", " ")
    IN  IF Len(short) > MaxChunkChars
        THEN SubSeq(short, 1, MaxChunkChars) \o Ellipsis
        ELSE short

\* the loop body without the newline replacement
bullet_line_noflatten(i, chunk) ==
    LET short == str_strip(chunk)
    IN  str_int(i) \o Chars(". ")
        \o (IF Len(short) > MaxChunkChars
            THEN SubSeq(short, 1, MaxChunkChars) \o Ellipsis
            ELSE short)

\* f"{i}. {short}"
bullet_line(i, chunk) == str_int(i) \o Chars(". ") \o short_chunk(chunk)

RECURSIVE str_join(_, _)
\* sep.join(lines)
str_join(sep, lines) ==
    IF lines = <<>> THEN <<>>
    ELSE IF Len(lines) = 1 THEN lines[1]
    ELSE lines[1] \o sep \o str_join(sep, Tail(lines))

\* the block without the early return for an empty result
build_handbook_reference_nosentinel(cs) ==
    Header \o <<"\n">> \o str_join(<<"\n">>, [i \in 1..Len(cs) |-> bullet_line(i, cs[i])])

\* the block numbered from 0 (enumerate without start=1)
build_handbook_reference_from0(cs) ==
    IF cs = <<>> THEN NoSections
    ELSE Header \o <<"\n">>
         \o str_join(<<"\n">>, [i \in 1..Len(cs) |-> bullet_line(i - 1, cs[i])])

\* build_handbook_reference after retrieve_handbook_context returned cs
build_handbook_reference(cs) ==
    IF cs = <<>> THEN NoSections
    ELSE Header \o <<"\n">>
         \o str_join(<<"\n">>, [i \in 1..Len(cs) |-> bullet_line(i, cs[i])])

\* HandbookRAG.retrieve: top_k = k or self.config.rag.top_k_chunks
top_k(kk) == IF kk = None THEN top_k_chunks ELSE IF kk[1] = 0 THEN top_k_chunks ELSE kk[1]

(***************************************************************************)
(* Inputs of the block: passages around the 600-character limit, with      *)
(* newlines inside and whitespace at the ends.                             *)
(***************************************************************************)
MaxK == 11

Fill(n) == [i \in 1..n |-> IF i % 50 = 25 THEN "\n" ELSE "a"]

PassageList == <<
    Chars("  Warranty:\n3 years\r\n"),
    Chars(" \n\t"),
    <<"\n">> \o Fill(MaxChunkChars) \o <<"\n">>,
    Fill(MaxChunkChars + 1) \o <<" ">>,
    Chars("APR from 3.9%, see page 3..."),
    Chars("b\n\nc") \o Fill(MaxChunkChars + 100) >>

NP == Len(PassageList)

\* what similarity_search can return for n results: the index ranks its
\* passages in some order
SampleResults(n) ==
    { [i \in 1..n |-> PassageList[((r + i * s) % NP) + 1]] : r \in 0..(NP - 1), s \in 1..2 }

\* similarity_search(query, k): at most k passages; a non-positive k is an error
SearchResults(kk) ==
    IF kk < 1 THEN {} ELSE UNION { SampleResults(n) : n \in 0..kk }

KValues == {None} \cup { Some(n) : n \in -1..MaxK }

InitBlock ==
    /\ DecideIdle
    /\ InventoryIdle
    /\ BookingIdle
    /\ AgentIdle
    /\ RagIdle
    /\ SupervisorIdle
    /\ k \in KValues
    /\ queried_k = <<>>
    /\ retrieval = "pending"
    /\ chunks = <<>>
    /\ handbook_ref = <<>>

\* build_handbook_reference(query, k) when the retrieval returns
BuildHandbookReference ==
    /\ retrieval = "pending"
    /\ \E cs \in SearchResults(top_k(k)) :
        /\ chunks' = cs
        /\ handbook_ref' = << build_handbook_reference(cs) >>
    /\ queried_k' = << top_k(k) >>
    /\ retrieval' = "ok"
    /\ UNCHANGED <<k, notBlock>>

\* build_handbook_reference(query, k) when the retrieval raises: the index
\* cannot be built (_get_rag raises, nothing is queried) or similarity_search
\* raises, and the exception leaves the function
BuildHandbookReferenceRaises ==
    /\ retrieval = "pending"
    /\ retrieval' = "raised"
    /\ queried_k' \in { <<>>, << top_k(k) >> }
    /\ UNCHANGED <<k, chunks, handbook_ref, notBlock>>

NextBlock == BuildHandbookReference \/ BuildHandbookReferenceRaises

SpecBlock == InitBlock /\ [][NextBlock]_vars

(***************************************************************************)
(* Reading a block back: its lines, and what a passage should look like    *)
(***************************************************************************)
NewlinePositions(b) == { p \in 1..Len(b) : b[p] = "\n" }

\* position of the n-th newline of b; 0 before the first line, Len(b) + 1
\* after the last
NthBreak(b, n) ==
    LET nl == NewlinePositions(b)
    IN  IF n = 0 THEN 0
        ELSE IF n > Cardinality(nl) THEN Len(b) + 1
        ELSE CHOOSE p \in nl : Cardinality({ q \in nl : q < p }) = n - 1

LineCount(b) == Cardinality(NewlinePositions(b)) + 1

\* the n-th line of b, without its newline
Line(b, n) == SubSeq(b, NthBreak(b, n - 1) + 1, NthBreak(b, n) - 1)

\* the passage without the whitespace at its ends, each newline a space
Flattened(p) ==
    LET keep == { i \in 1..Len(p) : p[i] \notin Whitespace }
        lo == CHOOSE i \in keep : \A j \in keep : i <= j
        hi == CHOOSE i \in keep : \A j \in keep : j <= i
    IN  IF keep = {} THEN <<>>
        ELSE [i \in 1..(hi - lo + 1) |->
                 IF p[lo + i - 1] = "\n" THEN " " ELSE p[lo + i - 1]]

FlatOf == [n \in 1..NP |-> Flattened(PassageList[n])]

\* the flattened form of a passage of PassageList
Flat(p) == FlatOf[CHOOSE n \in 1..NP : PassageList[n] = p]

\* line i + 1 of the block without its "i. " prefix
PassageText(b, i) ==
    LET line == Line(b, i + 1)
    IN  SubSeq(line, Len(str_int(i)) + 3, Len(line))

(***************************************************************************)
(* C2: an empty retrieval result gives the literal "no relevant sections   *)
(* found" text, and the block returned is never the empty string.          *)
(***************************************************************************)
C2_EmptyResultGivesSentinel ==
    retrieval = "ok" =>
        /\ handbook_ref # <<>>
        /\ handbook_ref[1] # <<>>
        /\ chunks = <<>> =>
            handbook_ref[1] = Chars("Handbook reference: no relevant sections found.")

C2_Witness ==
    /\ retrieval = "ok"
    /\ chunks = <<>>
    /\ handbook_ref = << NoSections >>
    /\ k = Some(2)

(***************************************************************************)
(* C3: for n >= 1 passages the block is the header line followed by        *)
(* exactly n lines; line i starts with the number i, a dot and a space,    *)
(* and continues with the i-th passage returned.                           *)
(***************************************************************************)
C3_HeaderThenNumberedLines ==
    (retrieval = "ok" /\ Len(chunks) >= 1) =>
        LET b == handbook_ref[1]
        IN  /\ LineCount(b) = Len(chunks) + 1
            /\ Line(b, 1) = Chars("Handbook reference (Skyline Motors dealer handbook):")
            /\ \A i \in 1..Len(chunks) :
                LET line == Line(b, i + 1)
                    num == str_int(i) \o Chars(". ")
                    flat == Flat(chunks[i])
                    shown == IF Len(flat) > MaxChunkChars THEN MaxChunkChars ELSE Len(flat)
                IN  /\ SubSeq(line, 1, Len(num)) = num
                    /\ SubSeq(line, Len(num) + 1, Len(num) + shown) = SubSeq(flat, 1, shown)

C3_Witness ==
    /\ retrieval = "ok"
    /\ Len(chunks) = 11
    /\ chunks[1] # chunks[2]
    /\ LineCount(handbook_ref[1]) = 12

C16_QueriedKIsPositive ==
    queried_k # <<>> => queried_k[1] >= 1

(***************************************************************************)
(* tools.py: the inventory search                                          *)
(***************************************************************************)
Vehicle(model, trim, bt, price, color, in_stock) ==
    [model |-> model, trim |-> trim, body_type |-> Chars(bt), price |-> price,
     color |-> color, in_stock |-> in_stock]

INVENTORY == <<
    Vehicle("Skyline Aurora", "LX", "sedan", 18500, "silver", TRUE),
    Vehicle("Skyline Aurora", "EX", "sedan", 22500, "blue", TRUE),
    Vehicle("Skyline Horizon", "Sport", "sedan", 29500, "red", TRUE),
    Vehicle("Skyline Trailrunner", "AWD", "suv", 34500, "white", TRUE),
    Vehicle("Skyline CityLite", "Base", "hatchback", 15500, "gray", FALSE) >>

\* normalized_body_type = body_type.lower() if body_type else None
normalized(bt) ==
    IF bt = None THEN None
    ELSE IF bt[1] = <<>> THEN None
    ELSE Some(str_lower(bt[1]))

\* the three `continue` tests on price and stock
passes_rest(vehicle, lo, hi) ==
    /\ ~ (lo # None /\ vehicle.price < lo[1])
    /\ ~ (hi # None /\ vehicle.price > hi[1])
    /\ vehicle.in_stock

\* the body-type `continue` test
passes_body_type(vehicle, nbt) ==
    ~ (nbt # None /\ str_lower(vehicle.body_type) # nbt[1])

RECURSIVE inventory_loop(_, _, _, _, _, _)
\* the for loop from vehicle number n on, with the results collected so far
inventory_loop(n, acc, nbt, lo, hi, lim) ==
    IF n > Len(INVENTORY) THEN acc
    ELSE IF passes_body_type(INVENTORY[n], nbt) /\ passes_rest(INVENTORY[n], lo, hi)
         THEN LET acc2 == Append(acc, INVENTORY[n])
              IN  IF Len(acc2) >= lim THEN acc2
                  ELSE inventory_loop(n + 1, acc2, nbt, lo, hi, lim)
         ELSE inventory_loop(n + 1, acc, nbt, lo, hi, lim)

search_inventory(bt, lo, hi, lim) ==
    inventory_loop(1, <<>>, normalized(bt), lo, hi, lim)

(***************************************************************************)
(* Inputs of the search: body types in either case, absent or empty; price *)
(* bounds absent, on a catalog price and beside one; limits around zero    *)
(***************************************************************************)
MaxLimit == 5

BodyTypes == { None, Some(<<>>), Some(Chars("sedan")), Some(Chars("SEDAN")),
               Some(Chars("Suv")), Some(Chars("hatchback")), Some(Chars("coupe")) }

Prices == { None, Some(0), Some(15500), Some(18000), Some(18500), Some(18501),
            Some(22500), Some(29499), Some(30000), Some(34500) }

Limits == (-1..MaxLimit) \cup {DefaultLimit}

InitInventory ==
    /\ DecideIdle
    /\ BlockIdle
    /\ BookingIdle
    /\ AgentIdle
    /\ RagIdle
    /\ SupervisorIdle
    /\ body_type \in BodyTypes
    /\ min_price \in Prices
    /\ max_price \in Prices
    /\ limit \in Limits
    /\ results = <<>>

SearchInventory ==
    /\ results = <<>>
    /\ results' = << search_inventory(body_type, min_price, max_price, limit) >>
    /\ UNCHANGED <<body_type, min_price, max_price, limit, notInventory>>

NextInventory == SearchInventory

SpecInventory == InitInventory /\ [][NextInventory]_vars

(***************************************************************************)
(* What the search is to return                                            *)
(***************************************************************************)
\* a body type was asked for (an empty one counts as none)
Given(bt) == bt # None /\ bt # Some(<<>>)

\* vehicle v is in stock and meets the filters of the call
Matches(v) ==
    /\ v.in_stock
    /\ Given(body_type) => str_lower(v.body_type) = str_lower(body_type[1])
    /\ min_price # None => v.price >= min_price[1]
    /\ max_price # None => v.price <= max_price[1]

RECURSIVE SelectMatches(_)
\* the matching vehicles of the catalog from number n on, in catalog order
SelectMatches(n) ==
    IF n > Len(INVENTORY) THEN <<>>
    ELSE (IF Matches(INVENTORY[n]) THEN <<INVENTORY[n]>> ELSE <<>>) \o SelectMatches(n + 1)

\* the first n elements of s
Take(s, n) == SubSeq(s, 1, IF n < 0 THEN 0 ELSE IF n > Len(s) THEN Len(s) ELSE n)

(***************************************************************************)
(* C7: the search returns exactly the in-stock vehicles that match the     *)
(* body type (case-insensitively) and lie within the inclusive price       *)
(* bounds, in catalog order, up to the result limit.                       *)
(***************************************************************************)
C7_ExactlyTheMatchesUpToLimit ==
    results # <<>> => results[1] = Take(SelectMatches(1), limit)

(***************************************************************************)
(* C8: the search returns at most limit vehicles, for every limit and      *)
(* every combination of filters.                                           *)
(***************************************************************************)
C8_AtMostLimit ==
    results # <<>> => Len(results[1]) <= limit

(***************************************************************************)
(* The booking recorder. tools.py as given holds no book_test_drive and no *)
(* TEST_DRIVE_BOOKINGS; they are modelled from their test and their caller *)
(* (a record of the five supplied fields appended to an in-memory list).   *)
(***************************************************************************)
\* book_test_drive: the store after the call and the record returned
book_test_drive(store, customer_name, contact_phone, contact_email, model, preferred_time) ==
    LET rec == [customer_name |-> customer_name, contact_phone |-> contact_phone,
                contact_email |-> contact_email, model |-> model,
                preferred_time |-> preferred_time]
    IN  [store |-> Append(store, rec), booking |-> rec]

\* the tool with customer_name and model passed in each other's place
book_test_drive_tool_swapped(store, args) ==
    book_test_drive(store, args.model, args.contact_phone, args.contact_email,
                    args.customer_name, args.preferred_time)

\* agent.py book_test_drive_tool: hands its five arguments on by keyword and
\* returns the booking
book_test_drive_tool(store, args) ==
    book_test_drive(store, args.customer_name, args.contact_phone, args.contact_email,
                    args.model, args.preferred_time)

MaxBookings == 3

BookingArgs ==
    [customer_name : {"Alex", "Sam"},
     contact_phone : {"111-111-1111"},
     contact_email : {"alex@example.com"},
     model : {"Skyline Aurora EX", "Skyline Horizon Sport"},
     preferred_time : {"tomorrow 8 pm", "Friday noon"}]

InitBooking ==
    /\ DecideIdle
    /\ BlockIdle
    /\ InventoryIdle
    /\ AgentIdle
    /\ RagIdle
    /\ SupervisorIdle
    /\ TEST_DRIVE_BOOKINGS = <<>>
    /\ booking_args = None
    /\ booking = None

BookTestDriveTool ==
    /\ Len(TEST_DRIVE_BOOKINGS) < MaxBookings
    /\ \E args \in BookingArgs :
        LET r == book_test_drive_tool(TEST_DRIVE_BOOKINGS, args)
        IN  /\ booking_args' = Some(args)
            /\ TEST_DRIVE_BOOKINGS' = r.store
            /\ booking' = Some(r.booking)
    /\ UNCHANGED notBooking

NextBooking == BookTestDriveTool

SpecBooking == InitBooking /\ [][NextBooking]_vars

text_or_empty(content) == IF content = None THEN <<>> ELSE content[1]

\* the test with `and` in place of `or`
skips_rag_and(t) == t = <<>> /\ ~ _looks_like_factual_question(t)

\* if not text or not _looks_like_factual_question(text): return
skips_rag(t) == t = <<>> \/ ~ _looks_like_factual_question(t)

\* turn_ctx.add_message(role=..., content=...)
add_message(ctx, role, content) == Append(ctx, [role |-> role, content |-> content])

(***************************************************************************)
(* Inputs of the hook                                                      *)
(***************************************************************************)
Instructions == [role |-> "system", content |-> Chars("You are the AI concierge")]

SampleContexts == {
    << Instructions >>,
    << Instructions, [role |-> "user", content |-> Chars("Hi there")],
       [role |-> "assistant", content |-> Chars("Welcome!")] >> }

\* what the retrieval returns to the agent (k is left at its default)
AgentResults == {
    <<>>,
    << PassageList[1] >>,
    << PassageList[5], PassageList[4], PassageList[1] >> }

InitTurn ==
    /\ DecideIdle
    /\ BlockIdle
    /\ InventoryIdle
    /\ BookingIdle
    /\ AgentIdle
    /\ RagIdle
    /\ SupervisorIdle

\* the session commits a user turn: the arguments of the hook
UserTurnCommitted ==
    /\ phase = "listening"
    /\ \E transcript \in Utterances, ctx \in SampleContexts :
        /\ new_message' \in
               {Some(transcript)} \cup (IF transcript = <<>> THEN {None} ELSE {})
        /\ turn_ctx' = ctx
    /\ phase' = "end_of_turn"
    /\ hook' = "none"
    /\ retrieval_calls' = 0
    /\ UNCHANGED notTurn

\* SkylineVoiceAgent.on_user_turn_completed, run to its end: it has no await
OnUserTurnCompleted ==
    /\ phase = "end_of_turn"
    /\ LET t == text_or_empty(new_message)
       IN  \/ /\ skips_rag(t)
              /\ hook' = "skipped"
              /\ phase' = "reasoning"
              /\ UNCHANGED <<turn_ctx, retrieval_calls, new_message>>
           \/ /\ ~ skips_rag(t)
              /\ retrieval_calls' = retrieval_calls + 1
              /\ \E cs \in AgentResults :
                  turn_ctx' = add_message(turn_ctx, "system", build_handbook_reference(cs))
              /\ hook' = "augmented"
              /\ phase' = "reasoning"
              /\ UNCHANGED new_message
           \/ \* the retrieval raises; nothing in the hook or below it catches
              /\ ~ skips_rag(t)
              /\ retrieval_calls' = retrieval_calls + 1
              /\ hook' = "raised"
              /\ phase' = "listening"
              /\ turn_ctx' = <<>>
              /\ new_message' = None
    /\ UNCHANGED notTurn

\* the reply is made from turn_ctx and the turn ends; turn_ctx was the
\* session's copy for this turn
ReplyMade ==
    /\ phase = "reasoning"
    /\ phase' = "listening"
    /\ turn_ctx' = <<>>
    /\ new_message' = None
    /\ UNCHANGED <<hook, retrieval_calls, notTurn>>

NextTurn == UserTurnCommitted \/ OnUserTurnCompleted \/ ReplyMade

SpecTurn == InitTurn /\ [][NextTurn]_vars

\* no vocabulary term occurs in the lower-cased text t
Declined(t) == t = <<>> \/ ~ (\E term \in Vocabulary : OccursIn(term, str_lower(t)))

(***************************************************************************)
(* C5: when the policy declines the utterance (no keyword in it, or empty  *)
(* text), the hook makes no retrieval call, leaves turn_ctx as it was and  *)
(* the turn goes on to reasoning.                                          *)
(***************************************************************************)
C5_DeclinedIsPassThrough ==
    [][ (phase = "end_of_turn" /\ phase' # "end_of_turn"
            /\ Declined(text_or_empty(new_message)))
        => /\ retrieval_calls' = retrieval_calls
           /\ turn_ctx' = turn_ctx
           /\ new_message' = new_message
           /\ phase' = "reasoning" ]_vars

C5_Witness ==
    /\ phase = "reasoning"
    /\ hook = "skipped"
    /\ new_message = Some(Chars("Hi there"))
    /\ retrieval_calls = 0
    /\ Len(turn_ctx) = 3

(***************************************************************************)
(* C6: a failing retrieval is treated as "no evidence": no error leaves    *)
(* on_user_turn_completed.                                                 *)
(***************************************************************************)
C6_NoErrorLeavesHook ==
    hook # "raised"

(***************************************************************************)
(* C19: when the policy accepts the utterance, on_user_turn_completed adds *)
(* the handbook block to turn_ctx as exactly one more message, of role     *)
(* system, after the messages that were there, and leaves the user's       *)
(* message as it was.                                                      *)
(***************************************************************************)
C19_OneSystemMessageAdded ==
    [][ (phase = "end_of_turn" /\ phase' # "end_of_turn"
            /\ ~ Declined(text_or_empty(new_message)))
        => /\ Len(turn_ctx') = Len(turn_ctx) + 1
           /\ SubSeq(turn_ctx', 1, Len(turn_ctx)) = turn_ctx
           /\ turn_ctx'[Len(turn_ctx')].role = "system"
           /\ turn_ctx'[Len(turn_ctx')].content \in
                 { build_handbook_reference(cs) : cs \in AgentResults }
           /\ new_message' = new_message ]_vars

(***************************************************************************)
(* agent.py: the transcript events. The session calls _on_user_input for   *)
(* each transcript and _on_conversation_item for each item added to the    *)
(* conversation. Both are plain callbacks of the event loop; each starts a *)
(* task of its own for _publish_transcript. The loop runs the steps of its *)
(* ready queue in FIFO order, and a task suspends inside publish_data.     *)
(***************************************************************************)
MaxTasks == 3

\* a task put at the front of the loop's queue
create_task_front(queue, id) == <<id>> \o queue

\* asyncio.create_task: the new task's first step goes to the back of the
\* loop's ready queue
create_task(queue, id) == Append(queue, id)

\* _publish_transcript without its except clause
publish_transcript_end_uncaught(failed) ==
    IF failed THEN "raised" ELSE "info_logged"

\* _publish_transcript from publish_data's outcome to its end: logger.info
\* after the await, logger.error in `except Exception`; it returns either way
publish_transcript_end(failed) ==
    IF failed THEN "error_logged" ELSE "info_logged"

\* _on_user_input: the payload to publish, or None
on_user_input(transcript, is_final) ==
    IF ~ is_final THEN None
    ELSE Some([speaker |-> "user", text |-> transcript])

\* _on_conversation_item: the payload to publish, or None
on_conversation_item(item) ==
    IF ~ item.is_chat_message THEN None
    ELSE IF item.role # "assistant" THEN None
    ELSE IF str_strip(text_or_empty(item.text_content)) = <<>> THEN None
    ELSE Some([speaker |-> "agent", text |-> text_or_empty(item.text_content)])

(***************************************************************************)
(* Inputs of the handlers                                                  *)
(***************************************************************************)
Transcripts == { <<>>, Chars("Hi there") }

Items == {
    [is_chat_message |-> FALSE, role |-> "none", text_content |-> None],
    [is_chat_message |-> TRUE, role |-> "user", text_content |-> Some(Chars("Hi there"))],
    [is_chat_message |-> TRUE, role |-> "assistant", text_content |-> None],
    [is_chat_message |-> TRUE, role |-> "assistant", text_content |-> Some(Chars(" \n"))],
    [is_chat_message |-> TRUE, role |-> "assistant",
     text_content |-> Some(Chars("Three years.\n"))] }

InitPublish ==
    /\ DecideIdle
    /\ BlockIdle
    /\ InventoryIdle
    /\ BookingIdle
    /\ AgentIdle
    /\ RagIdle
    /\ SupervisorIdle

\* asyncio.create_task(_publish_transcript(payload)), when there is a payload
Spawn(payload) ==
    IF payload = None
    THEN UNCHANGED <<tasks, ready, next_task>>
    ELSE /\ next_task < MaxTasks
         /\ next_task' = next_task + 1
         /\ tasks' = tasks \cup { [id |-> next_task + 1, speaker |-> payload[1].speaker,
                                   text |-> payload[1].text, pc |-> "created"] }
         /\ ready' = create_task(ready, next_task + 1)

\* the session emits user_input_transcribed
OnUserInput ==
    /\ \E transcript \in Transcripts, is_final \in BOOLEAN :
        Spawn(on_user_input(transcript, is_final))
    /\ UNCHANGED <<published, task_end, notPublish>>

\* the session emits conversation_item_added
OnConversationItem ==
    /\ \E item \in Items : Spawn(on_conversation_item(item))
    /\ UNCHANGED <<published, task_end, notPublish>>

TaskOf(id) == CHOOSE t \in tasks : t.id = id

SetPc(t, pc) == (tasks \ {t}) \cup { [t EXCEPT !.pc = pc] }

\* the loop runs the step at the head of its queue: _publish_transcript up to
\* its await, or from its await to its end
RunTask ==
    /\ ready # <<>>
    /\ LET t == TaskOf(Head(ready))
       IN  \/ \* publish_data takes the payload and suspends
              /\ t.pc = "created"
              /\ tasks' = SetPc(t, "awaiting_ok")
              /\ published' =
                    Append(published, [id |-> t.id, speaker |-> t.speaker, text |-> t.text])
              /\ UNCHANGED task_end
           \/ \* publish_data suspends and will fail
              /\ t.pc = "created"
              /\ tasks' = SetPc(t, "awaiting_err")
              /\ UNCHANGED <<published, task_end>>
           \/ \* publish_data raises at once: the task ends
              /\ t.pc = "created"
              /\ tasks' = tasks \ {t}
              /\ task_end' = publish_transcript_end(TRUE)
              /\ UNCHANGED published
           \/ \* resumed after the await: the task ends
              /\ t.pc \in {"woken_ok", "woken_err"}
              /\ tasks' = tasks \ {t}
              /\ task_end' = publish_transcript_end(t.pc = "woken_err")
              /\ UNCHANGED published
    /\ ready' = Tail(ready)
    /\ UNCHANGED <<next_task, notPublish>>

\* the transport finishes a publish_data call and wakes its task
PublishDataCompletes ==
    /\ \E t \in tasks :
        /\ t.pc \in {"awaiting_ok", "awaiting_err"}
        /\ tasks' = SetPc(t, IF t.pc = "awaiting_ok" THEN "woken_ok" ELSE "woken_err")
        /\ ready' = Append(ready, t.id)
    /\ UNCHANGED <<next_task, published, task_end, notPublish>>

NextPublish ==
    \/ OnUserInput
    \/ OnConversationItem
    \/ RunTask
    \/ PublishDataCompletes

SpecPublish == InitPublish /\ [][NextPublish]_vars

(***************************************************************************)
(* C10: the transcript events reach the room in the order in which their   *)
(* utterances and responses became final (the order in which the handlers  *)
(* started their tasks), whatever the interleaving of the tasks.           *)
(***************************************************************************)
C10_PublishedInFinalOrder ==
    \A i, j \in 1..Len(published) : i < j => published[i].id < published[j].id

C10_Witness ==
    /\ Len(published) = 2
    /\ published[1].id = 1
    /\ published[1].speaker = "user"
    /\ published[2].id = 3
    /\ published[2].speaker = "agent"
    /\ \E t \in tasks : t.id = 1 /\ t.pc = "awaiting_ok"

\* the ids in the loop's ready queue
ReadyIds == { ready[i] : i \in 1..Len(ready) }

\* a step in which a publish fails: publish_data raises at once or after its await
PublishFails ==
    /\ ready # <<>>
    /\ \E t \in tasks :
        /\ t.id = Head(ready)
        /\ t.pc \in {"created", "woken_err"}
        /\ \A u \in tasks' : u.id # t.id
        /\ \A e \in 1..Len(published') : published'[e].id # t.id

(***************************************************************************)
(* C11: a failed publish of a transcript event is logged and swallowed: no *)
(* exception leaves _publish_transcript; every task that can run is in the *)
(* loop's queue; and the step in which a publish fails logs the error and  *)
(* takes nothing but its own task from the loop, so that every other task  *)
(* stays as it was and what was published stays published.                 *)
(***************************************************************************)
C11_FailedPublishIsSwallowed ==
    /\ [](task_end # "raised")
    /\ [](\A t \in tasks : t.pc \in {"created", "woken_ok", "woken_err"} <=> t.id \in ReadyIds)
    /\ [][ PublishFails =>
            /\ task_end' = "error_logged"
            /\ ready' = Tail(ready)
            /\ tasks' = { t \in tasks : t.id # Head(ready) }
            /\ published' = published
            /\ next_task' = next_task ]_vars

\* task 1 failed and was logged; the publish of task 2 went through after it
C11_Witness ==
    /\ task_end = "error_logged"
    /\ next_task = 2
    /\ \A t \in tasks : t.id # 1
    /\ Len(published) = 1
    /\ published[1].id = 2
    /\ \E t \in tasks : t.id = 2 /\ t.pc = "awaiting_ok"

(***************************************************************************)
(* agent.py: the event loop of the job. The hook, the two handlers and the *)
(* _publish_transcript tasks all run on the one thread of the loop, a step *)
(* at a time, each step up to its next await. on_user_turn_completed has   *)
(* no await: it calls build_handbook_reference, which calls                *)
(* retrieve_handbook_context and HandbookRAG.retrieve, all plain functions,*)
(* and the loop's thread stays inside that call until it returns.          *)
(***************************************************************************)
MaxWait == 2

\* the utterances of the turns whose hook this loop runs
LoopTexts == { Chars("Hi there"), Chars("What is the warranty?") }

InitLoop ==
    /\ DecideIdle
    /\ BlockIdle
    /\ InventoryIdle
    /\ BookingIdle
    /\ AgentIdle
    /\ RagIdle
    /\ SupervisorIdle

\* the loop runs on_user_turn_completed for a text the policy accepts, up to
\* the call handbook_ref = build_handbook_reference(text)
HookCallsRetrieval ==
    /\ running = "none"
    /\ \E t \in LoopTexts : ~ skips_rag(t)
    /\ running' = "on_user_turn_completed"
    /\ waited' = 0
    /\ UNCHANGED notLoop

\* time passes while the embedding request and the index search go on
RetrievalTakesTime ==
    /\ running = "on_user_turn_completed"
    /\ waited < MaxWait
    /\ waited' = waited + 1
    /\ UNCHANGED <<running, notLoop>>

\* build_handbook_reference returns or raises; the hook ends and the thread
\* goes back to the loop
RetrievalReturns ==
    /\ running = "on_user_turn_completed"
    /\ running' = "none"
    /\ waited' = 0
    /\ UNCHANGED notLoop

\* the loop calls _on_user_input for a final transcript
HandleFinalUserInput ==
    /\ running = "none"
    /\ \E transcript \in Transcripts : Spawn(on_user_input(transcript, TRUE))
    /\ UNCHANGED <<published, task_end, notPublish>>

\* the loop calls the handlers and runs the steps of the tasks
LoopOnUserInput == running = "none" /\ OnUserInput

LoopOnConversationItem == running = "none" /\ OnConversationItem

LoopRunTask == running = "none" /\ RunTask

NextLoop ==
    \/ HookCallsRetrieval
    \/ RetrievalTakesTime
    \/ RetrievalReturns
    \/ HandleFinalUserInput
    \/ LoopOnUserInput
    \/ LoopOnConversationItem
    \/ LoopRunTask
    \/ PublishDataCompletes

SpecLoop == InitLoop /\ [][NextLoop]_vars

(***************************************************************************)
(* C14: while the retrieval of a turn is in flight the listener is not     *)
(* blocked: a new final user utterance can be handled, and a publish task  *)
(* that is ready can run, before the retrieval call returns.               *)
(***************************************************************************)
C14_ListenerNotBlocked ==
    running = "on_user_turn_completed" =>
        /\ next_task < MaxTasks => ENABLED HandleFinalUserInput
        /\ ready # <<>> => ENABLED LoopRunTask

(***************************************************************************)
(* C15: every retrieval call of a turn is under a bounded timeout: however *)
(* slow the index is, the call is given up (and the turn goes on with "no  *)
(* evidence") before MaxWait ticks have passed, so the hook is never seen  *)
(* still inside the call after MaxWait ticks.                              *)
(***************************************************************************)
C15_RetrievalHasTimeout ==
    ~ (running = "on_user_turn_completed" /\ waited = MaxWait)

(***************************************************************************)
(* handbook_rag.py: the cached index. _get_rag is wrapped in               *)
(* lru_cache(maxsize=1): the cache belongs to the process that imported    *)
(* the module. run_backend.py starts the agent and the upload server as    *)
(* two processes; the agent's entrypoint warms the index up and its hook   *)
(* queries it, the upload server overwrites the PDF and resets its cache.  *)
(***************************************************************************)
MaxUploads == 4

MaxQueries == 6

\* HandbookRAG.from_config: the instance built from the PDF now on disk by
\* the n-th run
from_config(pdf, n) == [doc |-> pdf, run |-> n]

\* _get_rag with no lru_cache on it
get_rag_uncached(cache, built) == [rag |-> built, runs |-> 1]

\* _get_rag under lru_cache(maxsize=1): a cached instance is returned as it
\* is; else the body runs from_config, and its result is cached unless it
\* raised (built = None). rag: what the cache holds after the call; runs: the
\* runs of from_config the call made
_get_rag(cache, built) ==
    IF cache # None
    THEN [rag |-> cache, runs |-> 0]
    ELSE [rag |-> built, runs |-> 1]

\* reset_rag_cache: the cache of the process that calls it is emptied
reset_rag_cache(cache) == None

InitRag ==
    /\ DecideIdle
    /\ BlockIdle
    /\ InventoryIdle
    /\ BookingIdle
    /\ AgentIdle
    /\ RagIdle
    /\ SupervisorIdle

\* retrieve_handbook_context in the agent's process: rag = _get_rag(), then
\* rag.retrieve(query, k). from_config_ok: whether from_config would succeed
RetrieveHandbookContext(from_config_ok) ==
    LET built == IF from_config_ok
                 THEN Some(from_config(handbook_pdf, from_config_runs + 1))
                 ELSE None
        got == _get_rag(rag_cache["agent"], built)
    IN  /\ rag_queries < MaxQueries
        /\ rag_queries' = rag_queries + 1
        /\ rag_cache' = [rag_cache EXCEPT !["agent"] = got.rag]
        /\ from_config_runs' = from_config_runs + got.runs
        /\ last_query' = IF got.rag = None
                         THEN last_query
                         ELSE Some([rag |-> got.rag[1], pdf |-> handbook_pdf])

\* entrypoint: the warm-up query; its failure is logged and raised again
RagWarmup ==
    /\ agent_pc = "warmup"
    /\ \E from_config_ok \in BOOLEAN :
        /\ RetrieveHandbookContext(from_config_ok)
        /\ agent_pc' = IF rag_cache'["agent"] = None THEN "failed" ELSE "serving"
    /\ UNCHANGED <<handbook_pdf, notRag>>

\* on_user_turn_completed: build_handbook_reference(text) for a turn
HookRetrieves ==
    /\ agent_pc = "serving"
    /\ \E from_config_ok \in BOOLEAN : RetrieveHandbookContext(from_config_ok)
    /\ UNCHANGED <<handbook_pdf, agent_pc, notRag>>

\* upload_handbook in the upload server's process, when the upload succeeds
UploadHandbook ==
    /\ handbook_pdf < MaxUploads
    /\ handbook_pdf' = handbook_pdf + 1
    /\ rag_cache' = [rag_cache EXCEPT !["upload_server"] = reset_rag_cache(@)]
    /\ UNCHANGED <<from_config_runs, rag_queries, last_query, agent_pc, notRag>>

NextRag == RagWarmup \/ HookRetrieves \/ UploadHandbook

SpecRag == InitRag /\ [][NextRag]_vars

(***************************************************************************)
(* C17: within one process the index is built once and reused: across the  *)
(* warm-up and the hook's retrievals, once from_config has succeeded it    *)
(* never runs again and the cached instance stays the same, and every      *)
(* query is made on that instance.                                         *)
(***************************************************************************)
C17_BuiltOnceAndReused ==
    /\ [][ \A p \in Procs : rag_cache[p] # None =>
              /\ rag_cache'[p] = rag_cache[p]
              /\ from_config_runs' = from_config_runs ]_vars
    /\ [](from_config_runs <= 1)
    /\ [](last_query # None => rag_cache["agent"] = Some(last_query[1].rag))

\* three queries in the agent's process, one run of from_config
C17_Witness ==
    /\ agent_pc = "serving"
    /\ rag_queries = 3
    /\ from_config_runs = 1
    /\ rag_cache["agent"] = Some(from_config(0, 1))
    /\ last_query # None
    /\ last_query[1].rag = from_config(0, 1)

(***************************************************************************)
(* C18: after an upload has succeeded, every question answered afterwards  *)
(* is retrieved from an index built from the new content: the instance a   *)
(* query uses was built from the PDF that is on disk at the query.         *)
(***************************************************************************)
C18_QueriesUseUploadedContent ==
    last_query # None => last_query[1].rag.doc = last_query[1].pdf

(***************************************************************************)
(* scripts/run_backend.py: main starts the two commands as child           *)
(* processes, polls them once a second, and in its finally clause sends    *)
(* terminate to those of procs that still run, waits for each and kills    *)
(* the ones that have not exited in time. Ctrl+C is a KeyboardInterrupt    *)
(* raised in main wherever it is; a child may exit at any time.            *)
(***************************************************************************)
InitSupervisor ==
    /\ DecideIdle
    /\ BlockIdle
    /\ InventoryIdle
    /\ BookingIdle
    /\ AgentIdle
    /\ RagIdle
    /\ SupervisorIdle

\* the command main is starting: the one after those already in procs
starting == Len(procs) + 1

\* proc = subprocess.Popen(cmd, cwd=...): the child runs, or Popen raises
Popen ==
    /\ sup_pc = "popen"
    /\ \/ /\ child' = [child EXCEPT ![starting] = "running"]
          /\ sup_pc' = "append"
       \/ /\ sup_pc' = "terminate"
          /\ UNCHANGED child
    /\ UNCHANGED <<sent, procs, fin_i, notSuper>>

\* procs.append(proc), and on to the next command or to the while loop
ProcsAppend ==
    /\ sup_pc = "append"
    /\ procs' = Append(procs, starting)
    /\ sup_pc' = IF starting = Cardinality(Commands) THEN "loop" ELSE "popen"
    /\ UNCHANGED <<child, sent, fin_i, notSuper>>

\* while True: sleep, poll each proc; SystemExit when one has exited
PollFindsExit ==
    /\ sup_pc = "loop"
    /\ \E j \in 1..Len(procs) : child[procs[j]] = "exited"
    /\ sup_pc' = "terminate"
    /\ UNCHANGED <<child, sent, procs, fin_i, notSuper>>

\* Ctrl+C while main is in its try block: except KeyboardInterrupt prints,
\* then the finally clause begins
KeyboardInterrupt ==
    /\ sup_pc \in {"popen", "append", "loop"}
    /\ sup_pc' = "terminate"
    /\ UNCHANGED <<child, sent, procs, fin_i, notSuper>>

\* finally, first loop: if proc.poll() is None: proc.terminate()
FinallyTerminate ==
    /\ sup_pc = "terminate"
    /\ IF fin_i > Len(procs)
       THEN /\ sup_pc' = "wait"
            /\ fin_i' = 1
            /\ UNCHANGED sent
       ELSE /\ sent' = IF child[procs[fin_i]] = "running"
                       THEN [sent EXCEPT ![procs[fin_i]] = @ \cup {"terminate"}]
                       ELSE sent
            /\ fin_i' = fin_i + 1
            /\ UNCHANGED sup_pc
    /\ UNCHANGED <<child, procs, notSuper>>

\* finally, second loop: proc.wait(timeout=5.0) returns when the child has
\* exited; after 5 seconds of a child that still runs it raises
\* TimeoutExpired and main calls proc.kill()
FinallyWait ==
    /\ sup_pc = "wait"
    /\ IF fin_i > Len(procs)
       THEN /\ sup_pc' = "exited"
            /\ UNCHANGED <<sent, fin_i>>
       ELSE /\ sent' = IF child[procs[fin_i]] = "running"
                       THEN [sent EXCEPT ![procs[fin_i]] = @ \cup {"kill"}]
                       ELSE sent
            /\ fin_i' = fin_i + 1
            /\ UNCHANGED sup_pc
    /\ UNCHANGED <<child, procs, notSuper>>

\* a child exits: on its own, or after a signal
ChildExits ==
    /\ \E c \in Commands :
        /\ child[c] = "running"
        /\ child' = [child EXCEPT ![c] = "exited"]
    /\ UNCHANGED <<sup_pc, sent, procs, fin_i, notSuper>>

NextSupervisor ==
    \/ Popen
    \/ ProcsAppend
    \/ PollFindsExit
    \/ KeyboardInterrupt
    \/ FinallyTerminate
    \/ FinallyWait
    \/ ChildExits

SpecSupervisor == InitSupervisor /\ [][NextSupervisor]_vars

(***************************************************************************)
(* C20: main leaves no started child running un-signalled: when main has   *)
(* ended, on whichever path, every child that was started and still runs   *)
(* has been sent terminate and then, not having exited within the wait,    *)
(* kill.                                                                   *)
(***************************************************************************)
C20_NoChildLeftRunning ==
    sup_pc = "exited" =>
        \A c \in Commands : child[c] = "running" => sent[c] = {"terminate", "kill"}

====
